---- MODULE Spec2Model ----
(***************************************************************************)
(* Two-tier cache over the Property store: the queryset tier kept by       *)
(* properties/utils.py under the key 'all_properties', the response tier   *)
(* kept by cache_page around the two views of properties/views.py, and the *)
(* post_save / post_delete receivers of properties/signals.py that delete  *)
(* the queryset key on every Store write.                                  *)
(***************************************************************************)
EXTENDS Integers, Sequences, FiniteSets, TLC

\* ------------------------------------------------------------------ bounds
MaxProps == 2          \* Property rows ever created in one behaviour
MaxCounter == 10       \* the small values of the Redis hit and miss counters
MaxWrites == 3         \* Store writes made while requests overlap
Titles == {"villa", "loft"}
Durations == {900, 2700}   \* amounts of time that pass between operations

\* --------------------------------------------------------------- constants
QUERYSET_TTL == 3600            \* cache.set(cache_key, properties_list, 3600)
RESPONSE_TTL == 60 * 15         \* @cache_page(60 * 15)
CACHE_KEY == "all_properties"
PAGE_JSON == "GET /"            \* cache_page key of property_list
PAGE_HTML == "GET /html/"       \* cache_page key of property_list_html
CacheKeys == {CACHE_KEY, PAGE_JSON, PAGE_HTML}

VARIABLES
  store,      \* the Property table: a set of rows [id, title, created_at]
  nextId,     \* the BigAutoField sequence: id of the next row
  cache,      \* the default cache: key -> entry
  lastOp,     \* the operation that ran last
  result,     \* what the last get_all_properties() call returned
  called,     \* the last operation called get_all_properties()
  queried,    \* that call queried the Store
  deleted,    \* what the last cache.delete returned
  receivers,  \* the receivers the last Store write dispatched to, in order
  log,        \* the log records of the last operation
  wasCached,  \* 'all_properties' held a live value just before the last operation
  prev,       \* the operation before the last one: the Store write a direct read
              \* follows, the invalidation an invalidation follows
  lastGet,    \* the most recent get_all_properties() call, if it missed and nothing
              \* was written or invalidated since, and the time since then
  prevGet,    \* lastGet as it stood when the last get_all_properties() call began
  served,     \* the response the last request was answered with
  servedHit,  \* it came from the response tier
  servedAge,  \* seconds since it was rendered
  redis,      \* the Redis server as INFO sees it: reachability and counters
  metrics,    \* what the last get_redis_cache_metrics() call returned
  cacheInfo,  \* what the last get_cache_info() call returned
  outcome,    \* how the last get_all_properties() call ended: raised or not, and
              \* the Store queries it made
  rpc,        \* overlapping requests: where each reader stands in get_all_properties()
  rlocal,     \* and the properties_list it holds
  wpc,        \* where the writer stands between its Store write and its receiver
  history     \* the listings the Store has had, oldest first

storeVars == <<store, nextId>>
histVars == <<lastOp, result, called, queried, deleted, receivers, log, wasCached,
              prev, lastGet, prevGet, served, servedHit, servedAge, cacheInfo, outcome>>
raceVars == <<rpc, rlocal, wpc, history>>
metricVars == <<redis, metrics>>
vars == <<store, nextId, cache, histVars, metricVars, raceVars>>

\* ------------------------------------------------------------ the Store
Ids(S) == {p.id : p \in S}

MaxCreated(S) == CHOOSE p \in S : \A q \in S : q.created_at <= p.created_at

MinCreated(S) == CHOOSE p \in S : \A q \in S : p.created_at <= q.created_at

\* order_by('created_at'): the sign of the ordering lost
RECURSIVE OrderByCreatedAsc(_)
OrderByCreatedAsc(S) ==
  IF S = {} THEN <<>>
  ELSE LET p == MinCreated(S) IN <<p>> \o OrderByCreatedAsc(S \ {p})

\* Property.objects.all().order_by('-created_at'), evaluated by list(...)
RECURSIVE OrderByCreatedDesc(_)
OrderByCreatedDesc(S) ==
  IF S = {} THEN <<>>
  ELSE LET p == MaxCreated(S) IN <<p>> \o OrderByCreatedDesc(S \ {p})

\* ------------------------------------------------------------ the cache
\* An entry carries the seconds it has left to live and the seconds since it was set.
NoEntry == [present |-> FALSE, value |-> <<>>, ttl |-> 0, age |-> 0]

Live(c, k) == c[k].present /\ c[k].ttl > 0

\* cache.set(key, value, timeout)
CacheSet(c, k, v, timeout) ==
  [c EXCEPT ![k] = [present |-> TRUE, value |-> v, ttl |-> timeout, age |-> 0]]

\* cache.clear() in place of cache.delete(key): every key goes
CacheClear(c, k) ==
  [cache |-> [j \in DOMAIN c |-> NoEntry], result |-> Live(c, k)]

\* cache.delete(key): whether a live value was removed
CacheDelete(c, k) ==
  [cache |-> [c EXCEPT ![k] = NoEntry], result |-> Live(c, k)]

\* d seconds pass: Redis drops every key whose time to live has run out
Expire(c, d) ==
  [k \in DOMAIN c |->
     IF Live(c, k) /\ c[k].ttl > d
     THEN [c[k] EXCEPT !.ttl = @ - d, !.age = @ + d]
     ELSE NoEntry]

Info(what) == [level |-> "info", event |-> what]
Warning(what) == [level |-> "warning", event |-> what]


\* ------------------------------------------------------- properties/utils.py
\* get_all_properties() without its cache.set: a miss leaves the key absent
GetAllPropertiesNoSet(c, S) ==
  IF Live(c, CACHE_KEY)
  THEN [result |-> c[CACHE_KEY].value, cache |-> c, queried |-> FALSE,
        log |-> <<Info("Cache HIT")>>]
  ELSE [result |-> OrderByCreatedDesc(S), cache |-> c, queried |-> TRUE,
        log |-> <<Info("Cache MISS"), Info("Cached")>>]

\* get_all_properties() testing "if cached_properties:" in place of "is not None"
GetAllPropertiesTruthy(c, S) ==
  IF Live(c, CACHE_KEY) /\ c[CACHE_KEY].value # <<>>
  THEN [result |-> c[CACHE_KEY].value, cache |-> c, queried |-> FALSE,
        log |-> <<Info("Cache HIT")>>]
  ELSE LET properties_list == OrderByCreatedDesc(S)
       IN [result |-> properties_list,
           cache |-> CacheSet(c, CACHE_KEY, properties_list, QUERYSET_TTL),
           queried |-> TRUE,
           log |-> <<Info("Cache MISS"), Info("Cached")>>]

\* get_all_properties() writing the entry again on a hit, which restarts its TTL
GetAllPropertiesRefresh(c, S) ==
  IF Live(c, CACHE_KEY)
  THEN [result |-> c[CACHE_KEY].value,
        cache |-> CacheSet(c, CACHE_KEY, c[CACHE_KEY].value, QUERYSET_TTL),
        queried |-> FALSE,
        log |-> <<Info("Cache HIT")>>]
  ELSE LET properties_list == OrderByCreatedDesc(S)
       IN [result |-> properties_list,
           cache |-> CacheSet(c, CACHE_KEY, properties_list, QUERYSET_TTL),
           queried |-> TRUE,
           log |-> <<Info("Cache MISS"), Info("Cached")>>]

\* get_all_properties(): cache-aside read of the listing
GetAllProperties(c, S) ==
  IF Live(c, CACHE_KEY)                       \* cached_properties is not None
  THEN [result |-> c[CACHE_KEY].value, cache |-> c, queried |-> FALSE,
        log |-> <<Info("Cache HIT")>>]
  ELSE LET properties_list == OrderByCreatedDesc(S)
       IN [result |-> properties_list,
           cache |-> CacheSet(c, CACHE_KEY, properties_list, QUERYSET_TTL),
           queried |-> TRUE,
           log |-> <<Info("Cache MISS"), Info("Cached")>>]

\* get_all_properties() with the query wrapped in "except: properties_list = []"
GetAllPropertiesStoreDownSwallow(c) ==
  IF Live(c, CACHE_KEY)
  THEN [result |-> c[CACHE_KEY].value, cache |-> c, queried |-> FALSE,
        raised |-> FALSE, attempts |-> 0, log |-> <<Info("Cache HIT")>>]
  ELSE [result |-> <<>>, cache |-> CacheSet(c, CACHE_KEY, <<>>, QUERYSET_TTL),
        queried |-> TRUE, raised |-> FALSE, attempts |-> 1,
        log |-> <<Info("Cache MISS"), Info("Cached")>>]

\* get_all_properties() while the Store is unavailable. A hit never reaches the
\* Store. On a miss list(queryset) raises at its only evaluation; nothing in the
\* function catches it, so the lines after it (cache.set, the second log line,
\* return) do not run.
GetAllPropertiesStoreDown(c) ==
  IF Live(c, CACHE_KEY)
  THEN [result |-> c[CACHE_KEY].value, cache |-> c, queried |-> FALSE,
        raised |-> FALSE, attempts |-> 0, log |-> <<Info("Cache HIT")>>]
  ELSE [result |-> <<>>, cache |-> c, queried |-> TRUE,
        raised |-> TRUE, attempts |-> 1, log |-> <<Info("Cache MISS")>>]

\* invalidate_properties_cache() returning True whatever cache.delete said
InvalidatePropertiesCacheAlwaysTrue(c) ==
  [cache |-> CacheDelete(c, CACHE_KEY).cache, result |-> TRUE,
   log |-> <<Info("Successfully invalidated")>>]

\* invalidate_properties_cache() that reads the key but does not delete it
InvalidatePropertiesCacheNoDelete(c) ==
  [cache |-> c, result |-> Live(c, CACHE_KEY),
   log |-> <<IF Live(c, CACHE_KEY) THEN Info("Successfully invalidated")
             ELSE Warning("Failed to invalidate")>>]

\* invalidate_properties_cache()
InvalidatePropertiesCache(c) ==
  LET d == CacheDelete(c, CACHE_KEY)
  IN [cache |-> d.cache, result |-> d.result,
      log |-> <<IF d.result THEN Info("Successfully invalidated")
                ELSE Warning("Failed to invalidate")>>]

\* get_cache_info() asking with cache.touch(cache_key, 3600), which restarts the
\* entry's time to live
GetCacheInfoTouch(c) ==
  LET exists == Live(c, CACHE_KEY)
  IN [cache |-> IF exists
                THEN [c EXCEPT ![CACHE_KEY].ttl = QUERYSET_TTL, ![CACHE_KEY].age = 0]
                ELSE c,
      info |-> [cache_key |-> CACHE_KEY, exists |-> exists,
                count |-> IF exists THEN Len(c[CACHE_KEY].value) ELSE 0,
                data_type |-> IF exists THEN "list" ELSE "None"]]

\* get_cache_info(): the cache as it leaves it and the dict it returns
\* ("None" stands for Python's None)
GetCacheInfo(c) ==
  LET exists == Live(c, CACHE_KEY)               \* cached_data is not None
  IN [cache |-> c,
      info |-> [cache_key |-> CACHE_KEY, exists |-> exists,
                count |-> IF exists THEN Len(c[CACHE_KEY].value) ELSE 0,
                data_type |-> IF exists THEN "list" ELSE "None"]]

\* info.get(key, default)
InfoGet(info, key, default) == IF key \in DOMAIN info THEN info[key] ELSE default

\* round(n / d * 100, 2) for n <= d, in hundredths of a percent: the nearest
\* hundredth, a tie going to the even one
RoundRatio(n, d) ==
  LET q == (n * 10000) \div d
      r == (n * 10000) % d
  IN IF 2 * r < d THEN q
     ELSE IF 2 * r > d THEN q + 1
     ELSE IF q % 2 = 0 THEN q ELSE q + 1

\* the label with > where the code has >=
EfficiencyStrict(hits, total) ==
  IF total > 0 /\ hits * 100 > 90 * total THEN "Excellent"
  ELSE IF total > 0 /\ hits * 100 > 70 * total THEN "Good"
  ELSE IF total > 0 /\ hits * 100 > 50 * total THEN "Fair"
  ELSE "Poor"

\* 'Excellent' if hit_ratio >= 90 else 'Good' if hit_ratio >= 70 else 'Fair' if
\* hit_ratio >= 50 else 'Poor', on hit_ratio = hits / total * 100 before rounding
\* (0 when total = 0)
Efficiency(hits, total) ==
  IF total > 0 /\ hits * 100 >= 90 * total THEN "Excellent"
  ELSE IF total > 0 /\ hits * 100 >= 70 * total THEN "Good"
  ELSE IF total > 0 /\ hits * 100 >= 50 * total THEN "Fair"
  ELSE "Poor"

\* The try block of get_redis_cache_metrics(): the exception it ends with, or
\* the metrics it returns. hit_ratio and miss_ratio are in hundredths of a percent.
MetricsTry(r) ==
  IF r.mode = "not_redis"            \* get_redis_connection("default") raises
  THEN [raised |-> TRUE, type |-> "NotImplementedError",
        message |-> "This backend does not support this feature", value |-> <<>>]
  ELSE IF r.mode = "down"            \* redis_connection.info() raises
  THEN [raised |-> TRUE, type |-> "ConnectionError",
        message |-> "Error 111 connecting to redis:6379. Connection refused.",
        value |-> <<>>]
  ELSE LET redis_info == r.info
           keyspace_hits == InfoGet(redis_info, "keyspace_hits", 0)
           keyspace_misses == InfoGet(redis_info, "keyspace_misses", 0)
           total_requests == keyspace_hits + keyspace_misses
       IN [raised |-> FALSE, type |-> "", message |-> "",
           value |->
             [keyspace_hits |-> keyspace_hits,
              keyspace_misses |-> keyspace_misses,
              total_requests |-> total_requests,
              hit_ratio |-> IF total_requests > 0
                            THEN RoundRatio(keyspace_hits, total_requests) ELSE 0,
              miss_ratio |-> IF total_requests > 0
                             THEN RoundRatio(keyspace_misses, total_requests) ELSE 0,
              redis_version |-> InfoGet(redis_info, "redis_version", "Unknown"),
              used_memory |-> InfoGet(redis_info, "used_memory", 0),
              used_memory_human |-> InfoGet(redis_info, "used_memory_human", "0B"),
              connected_clients |-> InfoGet(redis_info, "connected_clients", 0),
              total_commands_processed |->
                InfoGet(redis_info, "total_commands_processed", 0),
              instantaneous_ops_per_sec |->
                InfoGet(redis_info, "instantaneous_ops_per_sec", 0),
              cache_efficiency |-> Efficiency(keyspace_hits, total_requests)]]

\* The record of the except branch
ErrorMetrics(message) ==
  [keyspace_hits |-> 0, keyspace_misses |-> 0, total_requests |-> 0,
   hit_ratio |-> 0, miss_ratio |-> 0, redis_version |-> "Unknown",
   used_memory |-> 0, used_memory_human |-> "0B", connected_clients |-> 0,
   total_commands_processed |-> 0, instantaneous_ops_per_sec |-> 0,
   cache_efficiency |-> "Error", error |-> message]

\* get_redis_cache_metrics() with "except ConnectionError" for "except Exception"
GetRedisCacheMetricsConnectionOnly(r) ==
  LET b == MetricsTry(r)
  IN IF b.raised /\ b.type = "ConnectionError"
     THEN [raised |-> FALSE, type |-> "", message |-> "", value |-> ErrorMetrics(b.message)]
     ELSE b

\* get_redis_cache_metrics(): what the caller gets
GetRedisCacheMetrics(r) ==
  LET b == MetricsTry(r)
  IN IF b.raised                                        \* except Exception as e
     THEN [raised |-> FALSE, type |-> "", message |-> "", value |-> ErrorMetrics(b.message)]
     ELSE b

\* ----------------------------------------------------- properties/signals.py
\* the post_save receiver deleting the key only "if created:"
InvalidateCacheOnPropertySaveCreatedOnly(c, created) ==
  LET d == IF created THEN CacheDelete(c, CACHE_KEY) ELSE [cache |-> c, result |-> FALSE]
      action == IF created THEN "created" ELSE "updated"
  IN [cache |-> d.cache, result |-> d.result,
      log |-> <<Info(<<IF d.result THEN "Cache invalidated" ELSE "not found", action>>)>>]

\* invalidate_cache_on_property_save(sender, instance, created)
InvalidateCacheOnPropertySave(c, created) ==
  LET d == CacheDelete(c, CACHE_KEY)
      action == IF created THEN "created" ELSE "updated"
  IN [cache |-> d.cache, result |-> d.result,
      log |-> <<Info(<<IF d.result THEN "Cache invalidated" ELSE "not found", action>>)>>]

\* invalidate_cache_on_property_delete(sender, instance)
InvalidateCacheOnPropertyDelete(c) ==
  LET d == CacheDelete(c, CACHE_KEY)
  IN [cache |-> d.cache, result |-> d.result,
      log |-> <<Info(<<IF d.result THEN "Cache invalidated" ELSE "not found", "deleted">>)>>]

\* manual_cache_invalidation() logging the absent key with logger.info
ManualCacheInvalidationInfo(c) ==
  LET d == CacheDelete(c, CACHE_KEY)
  IN [cache |-> d.cache, result |-> d.result,
      log |-> <<IF d.result THEN Info("Manual cache invalidation: removed")
                ELSE Info("Manual cache invalidation: not found")>>]

\* manual_cache_invalidation()
ManualCacheInvalidation(c) ==
  LET d == CacheDelete(c, CACHE_KEY)
  IN [cache |-> d.cache, result |-> d.result,
      log |-> <<IF d.result THEN Info("Manual cache invalidation: removed")
                ELSE Warning("Manual cache invalidation: not found")>>]

\* post_delete left without a receiver
ReceiversSaveOnly(signal) ==
  IF signal = "post_save" THEN <<"invalidate_cache_on_property_save">> ELSE <<>>

\* The receivers connected to each signal: @receiver(post_save, sender=Property),
\* @receiver(post_delete, sender=Property), connected when ready() imports the module.
Receivers(signal) ==
  IF signal = "post_save" THEN <<"invalidate_cache_on_property_save">>
  ELSE IF signal = "post_delete" THEN <<"invalidate_cache_on_property_delete">>
  ELSE <<>>

RunReceiver(name, c, created) ==
  IF name = "invalidate_cache_on_property_save"
  THEN InvalidateCacheOnPropertySave(c, created)
  ELSE InvalidateCacheOnPropertyDelete(c)

\* signal.send(sender=Property, instance=..., created=...): every connected
\* receiver is called once, in order, in the thread of the Store write.
RECURSIVE SendTo(_, _, _)
SendTo(names, c, created) ==
  IF names = <<>> THEN [cache |-> c, result |-> FALSE, log |-> <<>>, ran |-> <<>>]
  ELSE LET r == RunReceiver(Head(names), c, created)
           rest == SendTo(Tail(names), r.cache, created)
       IN [cache |-> rest.cache,
           result |-> r.result,
           log |-> r.log \o rest.log,
           ran |-> <<Head(names)>> \o rest.ran]

Send(signal, c, created) == SendTo(Receivers(signal), c, created)

\* ------------------------------------------------------- properties/views.py
\* One record of the JSON body: price and created_at are converted to text.
PropertyToDict(p) ==
  [id |-> p.id, title |-> p.title, description |-> p.description,
   price |-> ToString(p.price), location |-> p.location,
   created_at |-> ToString(p.created_at)]

\* the JSON body with its records appended in reverse
JsonBodyReversed(properties) ==
  LET n == Len(properties)
      properties_data == [i \in 1..n |-> PropertyToDict(properties[n + 1 - i])]
  IN [properties |-> properties_data, count |-> Len(properties_data), cached |-> TRUE]

\* The body of property_list, given the listing it fetched
JsonBody(properties) ==
  LET properties_data == [i \in 1..Len(properties) |-> PropertyToDict(properties[i])]
  IN [properties |-> properties_data, count |-> Len(properties_data), cached |-> TRUE]

\* The rendering of property_list_html: the template applied to its context
HtmlBody(properties) ==
  [template |-> "properties/property_list.html", properties |-> properties,
   cached_view |-> TRUE]

Render(page, properties) ==
  IF page = PAGE_JSON THEN JsonBody(properties) ELSE HtmlBody(properties)

\* cache_page given the queryset tier's timeout
CachedViewLongTtl(page, c, S) ==
  IF Live(c, page)
  THEN [response |-> c[page].value, cache |-> c, hit |-> TRUE, age |-> c[page].age,
        called |-> FALSE, result |-> <<>>, queried |-> FALSE, log |-> <<>>]
  ELSE LET g == GetAllProperties(c, S)
           body == Render(page, g.result)
       IN [response |-> body, cache |-> CacheSet(g.cache, page, body, QUERYSET_TTL),
           hit |-> FALSE, age |-> 0,
           called |-> TRUE, result |-> g.result, queried |-> g.queried, log |-> g.log]

\* A view under @cache_page(60 * 15): a live stored response is served as it is;
\* otherwise the view runs and its response is stored for RESPONSE_TTL seconds.
CachedView(page, c, S) ==
  IF Live(c, page)
  THEN [response |-> c[page].value, cache |-> c, hit |-> TRUE, age |-> c[page].age,
        called |-> FALSE, result |-> <<>>, queried |-> FALSE, log |-> <<>>]
  ELSE LET g == GetAllProperties(c, S)
           body == Render(page, g.result)
       IN [response |-> body, cache |-> CacheSet(g.cache, page, body, RESPONSE_TTL),
           hit |-> FALSE, age |-> 0,
           called |-> TRUE, result |-> g.result, queried |-> g.queried, log |-> g.log]


\* property_list(request) and property_list_html(request), as served
PropertyList(c, S) == CachedView(PAGE_JSON, c, S)
PropertyListHtml(c, S) == CachedView(PAGE_HTML, c, S)

\* ------------------------------------------------------------ initial state
NoPrev == [op |-> "-", deleted |-> FALSE, wasCached |-> FALSE]
NoGet == [valid |-> FALSE, result |-> <<>>, elapsed |-> 0]
NoResponse == [none |-> TRUE]
RedisIdle == [mode |-> "up", info |-> <<>>]
NoMetrics == [none |-> TRUE]
NoInfo == [none |-> TRUE]
NoOutcome == [raised |-> FALSE, attempts |-> 0]
Readers == {"r1", "r2"}

Init ==
  /\ store = {}
  /\ nextId = 1
  /\ cache = [k \in CacheKeys |-> NoEntry]
  /\ lastOp = "init"
  /\ result = <<>>
  /\ called = FALSE
  /\ queried = FALSE
  /\ deleted = FALSE
  /\ receivers = <<>>
  /\ log = <<>>
  /\ wasCached = FALSE
  /\ prev = NoPrev
  /\ lastGet = NoGet
  /\ prevGet = NoGet
  /\ served = NoResponse
  /\ servedHit = FALSE
  /\ servedAge = 0
  /\ redis = RedisIdle
  /\ metrics = NoMetrics
  /\ cacheInfo = NoInfo
  /\ outcome = NoOutcome
  /\ rpc = [r \in Readers |-> "idle"]
  /\ rlocal = [r \in Readers |-> <<>>]
  /\ wpc = "idle"
  /\ history = << <<>> >>

NoCall ==
  /\ result' = <<>>
  /\ called' = FALSE
  /\ queried' = FALSE
  /\ prevGet' = NoGet
  /\ outcome' = NoOutcome

NoServe ==
  /\ served' = NoResponse
  /\ servedHit' = FALSE
  /\ servedAge' = 0

NoDelete ==
  /\ deleted' = FALSE
  /\ receivers' = <<>>
  /\ wasCached' = FALSE

Writes == {"create", "update", "delete"}
Invalidations == {"invalidate_properties_cache", "manual_cache_invalidation"}

Before(ops) ==
  IF lastOp \in ops
  THEN [op |-> lastOp, deleted |-> deleted, wasCached |-> wasCached]
  ELSE NoPrev

\* ------------------------------------------------------------ Store writes
\* The Store write has happened; the signal is sent to the connected receivers.
Written(op, signal, created) ==
  /\ LET s == Send(signal, cache, created)
     IN /\ cache' = s.cache
        /\ deleted' = s.result
        /\ receivers' = s.ran
        /\ log' = s.log
  /\ lastOp' = op
  /\ wasCached' = Live(cache, CACHE_KEY)
  /\ prev' = NoPrev
  /\ NoCall /\ NoServe
  /\ lastGet' = NoGet
  /\ cacheInfo' = NoInfo
  /\ UNCHANGED <<metricVars, raceVars>>

\* Property(...).save() of a new row, then post_save with created=True
Create(title) ==
  /\ nextId <= MaxProps
  /\ LET row == [id |-> nextId, title |-> title, description |-> "desc",
                 price |-> 1200, location |-> "Nairobi", created_at |-> nextId]
     IN /\ store' = store \cup {row}
        /\ nextId' = nextId + 1
        /\ Written("create", "post_save", TRUE)

\* instance.title = title; instance.save(), then post_save with created=False
Update(p, title) ==
  /\ p \in store
  /\ store' = (store \ {p}) \cup {[p EXCEPT !.title = title]}
  /\ nextId' = nextId
  /\ Written("update", "post_save", FALSE)

\* instance.delete(), then post_delete
Delete(p) ==
  /\ p \in store
  /\ store' = store \ {p}
  /\ nextId' = nextId
  /\ Written("delete", "post_delete", FALSE)

\* ------------------------------------------------------------ reads
\* What a get_all_properties() call leaves in the history
Called(g) ==
  /\ called' = TRUE
  /\ result' = g.result
  /\ queried' = g.queried
  /\ prevGet' = lastGet
  /\ outcome' = [raised |-> FALSE, attempts |-> IF g.queried THEN 1 ELSE 0]
  /\ lastGet' = IF g.queried
                THEN [valid |-> TRUE, result |-> g.result, elapsed |-> 0]
                ELSE NoGet

\* a direct call of get_all_properties()
GetAll ==
  /\ LET g == GetAllProperties(cache, store)
     IN /\ cache' = g.cache
        /\ log' = g.log
        /\ Called(g)
  /\ lastOp' = "get_all_properties"
  /\ prev' = Before(Writes)
  /\ NoServe /\ NoDelete
  /\ cacheInfo' = NoInfo
  /\ UNCHANGED <<storeVars, metricVars, raceVars>>

Serve(op, v) ==
  /\ cache' = v.cache
  /\ served' = v.response
  /\ servedHit' = v.hit
  /\ servedAge' = v.age
  /\ log' = v.log
  /\ IF v.called THEN Called(v) ELSE NoCall /\ lastGet' = lastGet
  /\ lastOp' = op
  /\ prev' = NoPrev
  /\ NoDelete
  /\ cacheInfo' = NoInfo
  /\ UNCHANGED <<storeVars, metricVars, raceVars>>

\* GET of the JSON listing
RequestList == Serve("property_list", PropertyList(cache, store))

\* GET of the HTML listing
RequestListHtml == Serve("property_list_html", PropertyListHtml(cache, store))

\* a direct call of get_all_properties() while the Store is unavailable
GetAllStoreDown ==
  /\ LET g == GetAllPropertiesStoreDown(cache)
     IN /\ cache' = g.cache
        /\ log' = g.log
        /\ IF g.raised
           THEN /\ result' = <<>>
                /\ called' = FALSE
                /\ queried' = FALSE
                /\ prevGet' = NoGet
                /\ lastGet' = NoGet
                /\ outcome' = [raised |-> TRUE, attempts |-> g.attempts]
           ELSE Called(g)
  /\ lastOp' = "get_all_properties, Store down"
  /\ prev' = NoPrev
  /\ NoServe /\ NoDelete
  /\ cacheInfo' = NoInfo
  /\ UNCHANGED <<storeVars, metricVars, raceVars>>

\* ------------------------------------------------------------ invalidation
Invalidated(op, d) ==
  /\ cache' = d.cache
  /\ deleted' = d.result
  /\ log' = d.log
  /\ lastOp' = op
  /\ wasCached' = Live(cache, CACHE_KEY)
  /\ prev' = Before(Invalidations)
  /\ NoCall /\ NoServe
  /\ lastGet' = NoGet
  /\ receivers' = <<>>
  /\ cacheInfo' = NoInfo
  /\ UNCHANGED <<storeVars, metricVars, raceVars>>

Invalidate == Invalidated("invalidate_properties_cache", InvalidatePropertiesCache(cache))

ManualInvalidate == Invalidated("manual_cache_invalidation", ManualCacheInvalidation(cache))

\* ------------------------------------------------------------ time
Min(a, b) == IF a <= b THEN a ELSE b

\* d seconds pass
Tick(d) ==
  /\ cache' = Expire(cache, d)
  /\ lastGet' = IF lastGet.valid
                THEN [lastGet EXCEPT !.elapsed = Min(@ + d, QUERYSET_TTL)]
                ELSE lastGet
  /\ lastOp' = "tick"
  /\ prev' = NoPrev
  /\ NoCall /\ NoServe /\ NoDelete
  /\ log' = <<>>
  /\ cacheInfo' = NoInfo
  /\ UNCHANGED <<storeVars, metricVars, raceVars>>

\* ------------------------------------------------------------ inspection
\* a call of get_cache_info()
CacheInfo ==
  /\ LET g == GetCacheInfo(cache)
     IN /\ cache' = g.cache
        /\ cacheInfo' = g.info
  /\ lastOp' = "get_cache_info"
  /\ prev' = NoPrev
  /\ NoCall /\ NoServe /\ NoDelete
  /\ log' = <<>>
  /\ UNCHANGED <<storeVars, lastGet, metricVars, raceVars>>

Next ==
  \/ \E title \in Titles : Create(title)
  \/ \E p \in store, title \in Titles : Update(p, title)
  \/ \E p \in store : Delete(p)
  \/ GetAll
  \/ GetAllStoreDown
  \/ RequestList
  \/ RequestListHtml
  \/ Invalidate
  \/ ManualInvalidate
  \/ CacheInfo
  \/ \E d \in Durations : Tick(d)

Spec == Init /\ [][Next]_vars

\* ------------------------------------------------------------ overlapping requests
\* Each worker runs get_all_properties() as three steps against the shared
\* cache and Store: cache.get, the Store query, cache.set. The writer commits
\* its Store write and then, as a second step, runs the receiver.

\* the Store query cut to its first row
LoadPropertiesFirstRow(S) ==
  LET all == OrderByCreatedDesc(S) IN IF all = <<>> THEN <<>> ELSE <<Head(all)>>

\* properties_list = list(Property.objects.all().order_by('-created_at')): one
\* query, which sees the table as it is at that moment
LoadProperties(S) == OrderByCreatedDesc(S)

\* a worker that drops its properties_list instead of caching it
StoreLoadedNowhere(c, properties_list) == c

\* cache.set(cache_key, properties_list, 3600) by a worker that loaded the list
StoreLoaded(c, properties_list) == CacheSet(c, CACHE_KEY, properties_list, QUERYSET_TTL)

\* cached_properties = cache.get(cache_key); a hit returns at once
ReaderGet(r) ==
  /\ rpc[r] = "idle"
  /\ rpc' = [rpc EXCEPT ![r] = IF Live(cache, CACHE_KEY) THEN "idle" ELSE "miss"]
  /\ rlocal' = [rlocal EXCEPT ![r] = IF Live(cache, CACHE_KEY)
                                      THEN cache[CACHE_KEY].value ELSE <<>>]
  /\ UNCHANGED <<storeVars, cache, histVars, metricVars, wpc, history>>

\* the Store query of a worker that missed
ReaderLoad(r) ==
  /\ rpc[r] = "miss"
  /\ rlocal' = [rlocal EXCEPT ![r] = LoadProperties(store)]
  /\ rpc' = [rpc EXCEPT ![r] = "loaded"]
  /\ UNCHANGED <<storeVars, cache, histVars, metricVars, wpc, history>>

\* its cache.set, and the return
ReaderSet(r) ==
  /\ rpc[r] = "loaded"
  /\ cache' = StoreLoaded(cache, rlocal[r])
  /\ rpc' = [rpc EXCEPT ![r] = "idle"]
  /\ UNCHANGED <<storeVars, rlocal, histVars, metricVars, wpc, history>>

Row(id, title) ==
  [id |-> id, title |-> title, description |-> "desc",
   price |-> 1200, location |-> "Nairobi", created_at |-> id]

\* The Store write of the writer is committed; its signal is still to be sent.
Committed(S, signal) ==
  /\ wpc = "idle"
  /\ Len(history) <= MaxWrites
  /\ store' = S
  /\ history' = Append(history, OrderByCreatedDesc(S))
  /\ wpc' = signal
  /\ UNCHANGED <<cache, histVars, metricVars, rpc, rlocal>>

WriterCreate(title) ==
  /\ nextId <= MaxProps
  /\ nextId' = nextId + 1
  /\ Committed(store \cup {Row(nextId, title)}, "post_save created")

WriterUpdate(p, title) ==
  /\ p \in store
  /\ nextId' = nextId
  /\ Committed((store \ {p}) \cup {[p EXCEPT !.title = title]}, "post_save")

WriterDelete(p) ==
  /\ p \in store
  /\ nextId' = nextId
  /\ Committed(store \ {p}, "post_delete")

\* the receiver of the committed write runs
WriterSignal ==
  /\ wpc # "idle"
  /\ cache' = Send(IF wpc = "post_delete" THEN "post_delete" ELSE "post_save",
                   cache, wpc = "post_save created").cache
  /\ wpc' = "idle"
  /\ UNCHANGED <<storeVars, histVars, metricVars, rpc, rlocal, history>>

\* invalidate_properties_cache() called from another worker
WorkerInvalidate ==
  /\ cache' = InvalidatePropertiesCache(cache).cache
  /\ UNCHANGED <<storeVars, histVars, metricVars, raceVars>>

NextRace ==
  \/ \E r \in Readers : ReaderGet(r)
  \/ \E r \in Readers : ReaderLoad(r)
  \/ \E r \in Readers : ReaderSet(r)
  \/ \E title \in Titles : WriterCreate(title)
  \/ \E p \in store, title \in Titles : WriterUpdate(p, title)
  \/ \E p \in store : WriterDelete(p)
  \/ WriterSignal
  \/ WorkerInvalidate

SpecRace == Init /\ [][NextRace]_vars

\* ------------------------------------------------------------ metrics
\* The values the Redis counters are drawn from
Counters == (0..MaxCounter) \cup {90, 1801, 5000, 5001, 16200}

\* What INFO answers on a server with these counters
InfoOf(hits, misses) ==
  [keyspace_hits |-> hits, keyspace_misses |-> misses, redis_version |-> "7.2.4",
   used_memory |-> 1048576, used_memory_human |-> "1.00M", connected_clients |-> 2,
   total_commands_processed |-> hits + misses + 7, instantaneous_ops_per_sec |-> 3]

RedisStates ==
  {[mode |-> m, info |-> InfoOf(h, x)] :
     m \in {"up", "down", "not_redis"}, h \in Counters, x \in Counters}
  \cup {[mode |-> "up", info |-> <<>>]}

InitMetrics ==
  /\ store = {}
  /\ nextId = 1
  /\ cache = [k \in CacheKeys |-> NoEntry]
  /\ lastOp = "init"
  /\ result = <<>>
  /\ called = FALSE
  /\ queried = FALSE
  /\ deleted = FALSE
  /\ receivers = <<>>
  /\ log = <<>>
  /\ wasCached = FALSE
  /\ prev = NoPrev
  /\ lastGet = NoGet
  /\ prevGet = NoGet
  /\ served = NoResponse
  /\ servedHit = FALSE
  /\ servedAge = 0
  /\ redis \in RedisStates
  /\ metrics = NoMetrics
  /\ cacheInfo = NoInfo
  /\ outcome = NoOutcome
  /\ rpc = [r \in Readers |-> "idle"]
  /\ rlocal = [r \in Readers |-> <<>>]
  /\ wpc = "idle"
  /\ history = << <<>> >>

\* a call of get_redis_cache_metrics()
GetMetrics ==
  /\ metrics' = GetRedisCacheMetrics(redis)
  /\ lastOp' = "get_redis_cache_metrics"
  /\ UNCHANGED <<storeVars, cache, result, called, queried, deleted, receivers, log,
                 wasCached, prev, lastGet, prevGet, served, servedHit, servedAge, redis,
                 cacheInfo, outcome, raceVars>>

NextMetrics == GetMetrics

SpecMetrics == InitMetrics /\ [][NextMetrics]_vars


\* ================================================================ properties
Requests == {"property_list", "property_list_html"}

\* The listing as a reader sees it: who is listed, under which title, in which order
Shown(rows) == [i \in 1..Len(rows) |-> <<rows[i].id, rows[i].title>>]
Fresh == Shown(OrderByCreatedDesc(store))
KeyLive == Live(cache, CACHE_KEY)

\* C1: a get_all_properties() call made after Store writes (each followed by its
\* receiver) returns every row now in the Store, with its current title, and no
\* row that was deleted, whatever the cache held before the writes.
C1_ReadAfterWrite ==
  called =>
    /\ \A p \in store : \E i \in DOMAIN result : result[i] = p
    /\ \A i \in DOMAIN result : result[i].id \in Ids(store)

\* a direct read right after an update that found the key populated
C1_Witness ==
  /\ lastOp = "get_all_properties"
  /\ prev.op = "update"
  /\ prev.wasCached
  /\ result # <<>>

\* C2 (as claimed): every listing an endpoint serves shows the Store as it is
\* when the request arrives.
C2_EndpointReadAfterWrite ==
  lastOp \in Requests => Shown(served.properties) = Fresh

\* C2 (amended): a request answered by running the view shows the Store as it
\* is; a request answered from the response tier is given a response rendered
\* less than RESPONSE_TTL seconds before, which may predate the last write.
C2_FreshOrYoungerThanTtl ==
  lastOp \in Requests =>
    IF servedHit THEN servedAge < RESPONSE_TTL
    ELSE Shown(served.properties) = Fresh

\* a stored response served after a write it does not show
C2_Witness ==
  /\ lastOp \in Requests
  /\ servedHit
  /\ Shown(served.properties) # Fresh

\* C3 (as claimed): the get_all_properties() call that follows a miss, with no
\* write and no invalidation in between, returns the same sequence without a
\* Store query.
C3_NextGetHits ==
  (called /\ prevGet.valid) => (result = prevGet.result /\ ~queried)

\* C3 (amended): the same, provided fewer than QUERYSET_TTL seconds passed
\* since the miss.
C3_NextGetHitsWithinTtl ==
  (called /\ prevGet.valid /\ prevGet.elapsed < QUERYSET_TTL)
    => (result = prevGet.result /\ ~queried)

\* a hit on a non-empty listing, some time after the miss that cached it
C3_Witness ==
  /\ called
  /\ prevGet.valid
  /\ prevGet.elapsed > 0
  /\ prevGet.elapsed < QUERYSET_TTL
  /\ ~queried
  /\ result # <<>>

\* C4: invalidate_properties_cache() and manual_cache_invalidation() return
\* true exactly when a live value was under 'all_properties' before the call,
\* and the key is absent after it.
C4_DeleteReportsPresence ==
  lastOp \in Invalidations => (deleted = wasCached /\ ~KeyLive)

\* manual_cache_invalidation() on an absent key: false, and nothing raised
C4_Witness ==
  /\ lastOp = "manual_cache_invalidation"
  /\ ~wasCached
  /\ ~deleted

\* C5 (as claimed): of two invalidate_properties_cache() calls in a row, the
\* first returns true and the second false.
C5_TrueThenFalse ==
  (lastOp = "invalidate_properties_cache" /\ prev.op = "invalidate_properties_cache")
    => (prev.deleted /\ ~deleted)

\* C5 (amended): the second returns false; the first returns true exactly when
\* a live value was under the key before it.
C5_SecondIsFalse ==
  (lastOp = "invalidate_properties_cache" /\ prev.op = "invalidate_properties_cache")
    => (~deleted /\ (prev.deleted <=> prev.wasCached))

\* true then false
C5_Witness ==
  /\ lastOp = "invalidate_properties_cache"
  /\ prev.op = "invalidate_properties_cache"
  /\ prev.deleted
  /\ ~deleted

\* C6: every sequence get_all_properties() returns, on a hit or on a miss, is
\* in strictly descending created_at order.
C6_NewestFirst ==
  called => \A i, j \in DOMAIN result :
              i < j => result[i].created_at > result[j].created_at

\* a hit returning two rows
C6_Witness ==
  /\ called
  /\ ~queried
  /\ Len(result) >= 2

\* C7 (as claimed): with an empty Store get_all_properties() returns the empty
\* sequence and caches it, and the next call (no write, no invalidation in
\* between) is a hit.
C7_EmptyIsCached ==
  /\ (called /\ store = {}) =>
       (result = <<>> /\ KeyLive /\ cache[CACHE_KEY].value = <<>>)
  /\ (called /\ prevGet.valid /\ prevGet.result = <<>>) => ~queried

\* C7 (amended): the next call is a hit provided fewer than QUERYSET_TTL
\* seconds passed since the empty sequence was cached.
C7_EmptyIsCachedWithinTtl ==
  /\ (called /\ store = {}) =>
       (result = <<>> /\ KeyLive /\ cache[CACHE_KEY].value = <<>>)
  /\ (called /\ prevGet.valid /\ prevGet.result = <<>> /\ prevGet.elapsed < QUERYSET_TTL)
       => (~queried /\ result = <<>>)

\* a hit on the cached empty sequence
C7_Witness ==
  /\ called
  /\ prevGet.valid
  /\ prevGet.result = <<>>
  /\ ~queried

\* C8: every Store write runs exactly one receiver, the one of its signal, in
\* the same step; the receiver leaves 'all_properties' absent and reports
\* whether it was there; the created flag does not change what the post_save
\* receiver does to the cache; and a receiver run on an absent key changes nothing.
C8_ReceiverPerWrite ==
  /\ lastOp \in Writes =>
       /\ ~KeyLive
       /\ deleted = wasCached
       /\ receivers = IF lastOp = "delete"
                      THEN <<"invalidate_cache_on_property_delete">>
                      ELSE <<"invalidate_cache_on_property_save">>
  /\ lastOp \notin Writes => receivers = <<>>
  /\ InvalidateCacheOnPropertySave(cache, TRUE).cache
       = InvalidateCacheOnPropertySave(cache, FALSE).cache
  /\ ~KeyLive =>
       /\ InvalidateCacheOnPropertySave(cache, TRUE).cache = cache
       /\ InvalidateCacheOnPropertySave(cache, FALSE).cache = cache
       /\ InvalidateCacheOnPropertyDelete(cache).cache = cache

\* a delete that found the key populated
C8_Witness ==
  /\ lastOp = "delete"
  /\ wasCached
  /\ deleted
  /\ ~KeyLive


Measured == lastOp = "get_redis_cache_metrics"
Hits == InfoGet(redis.info, "keyspace_hits", 0)
Misses == InfoGet(redis.info, "keyspace_misses", 0)
Abs(x) == IF x < 0 THEN -x ELSE x

\* C9: get_redis_cache_metrics() never raises; when the connection or the INFO
\* call fails it returns every numeric field zero, cache_efficiency "Error" and
\* a non-empty error text.
C9_FailureIsolated ==
  Measured =>
    /\ ~metrics.raised
    /\ redis.mode # "up" =>
         /\ \A f \in {"keyspace_hits", "keyspace_misses", "total_requests", "hit_ratio",
                      "miss_ratio", "used_memory", "connected_clients",
                      "total_commands_processed", "instantaneous_ops_per_sec"} :
              metrics.value[f] = 0
         /\ metrics.value.cache_efficiency = "Error"
         /\ "error" \in DOMAIN metrics.value
         /\ metrics.value.error # ""

\* the backend is not a Redis backend: the exception is not a connection error
C9_Witness ==
  /\ Measured
  /\ redis.mode = "not_redis"
  /\ Hits > 0
  /\ metrics.value.cache_efficiency = "Error"

\* The label that goes with a hit ratio given in hundredths of a percent
LabelOf(ratio) ==
  IF ratio >= 9000 THEN "Excellent"
  ELSE IF ratio >= 7000 THEN "Good"
  ELSE IF ratio >= 5000 THEN "Fair"
  ELSE "Poor"

\* C10 (as claimed): on success total_requests = hits + misses, the returned
\* ratios are exactly hits/total*100 and misses/total*100 (0 when total = 0),
\* and the label is the one the returned hit_ratio falls under.
C10_ExactRatiosMatchingLabel ==
  (Measured /\ redis.mode = "up") =>
    LET v == metrics.value
        total == Hits + Misses
    IN /\ v.total_requests = total
       /\ v.hit_ratio * total = Hits * 10000
       /\ v.miss_ratio * total = Misses * 10000
       /\ v.cache_efficiency = LabelOf(v.hit_ratio)

\* C10 (amended): on success total_requests = hits + misses, the returned
\* ratios are hits/total*100 and misses/total*100 rounded to the nearest
\* hundredth (0 when total = 0), and the label is the one the ratio
\* hits/total*100 falls under before it is rounded.
C10_RoundedRatiosUnroundedLabel ==
  (Measured /\ redis.mode = "up") =>
    LET v == metrics.value
        total == Hits + Misses
    IN /\ v.total_requests = total
       /\ 2 * Abs(v.hit_ratio * total - Hits * 10000) <= total
       /\ 2 * Abs(v.miss_ratio * total - Misses * 10000) <= total
       /\ total = 0 => (v.hit_ratio = 0 /\ v.miss_ratio = 0)
       /\ v.cache_efficiency =
            (IF total > 0 /\ Hits * 100 >= 90 * total THEN "Excellent"
             ELSE IF total > 0 /\ Hits * 100 >= 70 * total THEN "Good"
             ELSE IF total > 0 /\ Hits * 100 >= 50 * total THEN "Fair"
             ELSE "Poor")

\* 5000 hits and 5001 misses: hit_ratio 50.0 is returned with the label "Poor"
C10_Witness ==
  /\ Measured
  /\ redis.mode = "up"
  /\ Hits = 5000
  /\ Misses = 5001
  /\ metrics.value.hit_ratio = 5000
  /\ metrics.value.cache_efficiency = "Poor"


\* C11: a get_cache_info() call leaves the cache (every key, value and time to
\* live) and the Store as they were, and returns exists = the key is present,
\* count = the number of cached rows, and, with the key absent, count 0 and no
\* data_type.
C11_CacheInfoReadOnly ==
  [][lastOp' = "get_cache_info" =>
       /\ cache' = cache
       /\ store' = store
       /\ cacheInfo'.exists = Live(cache, CACHE_KEY)
       /\ cacheInfo'.count = (IF Live(cache, CACHE_KEY)
                              THEN Len(cache[CACHE_KEY].value) ELSE 0)
       /\ ~Live(cache, CACHE_KEY) =>
            (cacheInfo'.count = 0 /\ cacheInfo'.data_type = "None")]_vars

\* get_cache_info() on a populated key some time after it was set
C11_Witness ==
  /\ lastOp = "get_cache_info"
  /\ cacheInfo.exists
  /\ cacheInfo.count >= 1
  /\ cache[CACHE_KEY].age > 0


\* C13: the entry under 'all_properties' is written only by a get_all_properties()
\* call that missed, always with a time to live of 3600 seconds; a call that hits
\* leaves the entry, its age and its remaining time to live as they were; so a
\* present entry was loaded less than 3600 seconds ago and what a hit returns is
\* that entry.
C13_TtlFreshness ==
  /\ [](KeyLive =>
          /\ cache[CACHE_KEY].ttl + cache[CACHE_KEY].age = QUERYSET_TTL
          /\ cache[CACHE_KEY].age < QUERYSET_TTL)
  /\ []((called /\ ~queried) =>
          /\ KeyLive
          /\ result = cache[CACHE_KEY].value
          /\ cache[CACHE_KEY].age < QUERYSET_TTL)
  /\ []((called /\ queried) =>
          /\ KeyLive
          /\ result = cache[CACHE_KEY].value
          /\ cache[CACHE_KEY].age = 0
          /\ cache[CACHE_KEY].ttl = QUERYSET_TTL)
  /\ [][(called' /\ ~queried') => cache'[CACHE_KEY] = cache[CACHE_KEY]]_vars
  /\ [][(Live(cache', CACHE_KEY) /\ cache'[CACHE_KEY] # cache[CACHE_KEY]
           /\ lastOp' # "tick") =>
          /\ ~Live(cache, CACHE_KEY)
          /\ called' /\ queried'
          /\ cache'[CACHE_KEY].ttl = QUERYSET_TTL]_vars

\* a hit on an entry that has already used up most of its time to live
C13_Witness ==
  /\ called /\ ~queried
  /\ KeyLive
  /\ cache[CACHE_KEY].age = 2700
  /\ cache[CACHE_KEY].ttl = QUERYSET_TTL - 2700
  /\ result # <<>>

\* C14: when the Store query of a get_all_properties() call that missed fails,
\* the call raises to its caller after that one Store attempt and the cache is
\* left as it was: the key stays absent, no empty or partial value is written.
C14_StoreFailurePropagates ==
  [][(lastOp' = "get_all_properties, Store down" /\ ~Live(cache, CACHE_KEY)) =>
       /\ outcome'.raised
       /\ outcome'.attempts = 1
       /\ ~called' /\ result' = <<>>
       /\ cache' = cache
       /\ ~Live(cache', CACHE_KEY)
       /\ store' = store]_vars

\* the Store failed under a miss while both pages were still cached
C14_Witness ==
  /\ outcome.raised
  /\ outcome.attempts = 1
  /\ ~KeyLive
  /\ Live(cache, PAGE_JSON)
  /\ store # {}

\* C15 as stated: on every delete path a delete that finds the key absent gives
\* a false result and is logged at warning severity.
C15_AbsentLogsWarning ==
  (lastOp \in (Writes \cup Invalidations) /\ ~wasCached) =>
    /\ ~deleted
    /\ Len(log) >= 1
    /\ \A i \in DOMAIN log : log[i].level = "warning"

\* C15: a delete that finds the key absent gives a false result on every path;
\* invalidate_properties_cache and manual_cache_invalidation log it at warning
\* severity, the post_save and post_delete receivers log it at info severity,
\* as they log a delete that removed the key.
C15_AbsentWarnsOnlyOnDirectCalls ==
  /\ (lastOp \in Invalidations /\ ~wasCached) =>
       (~deleted /\ Len(log) = 1 /\ log[1].level = "warning")
  /\ (lastOp \in Writes /\ ~wasCached) =>
       (~deleted /\ Len(log) = 1 /\ log[1].level = "info")
  /\ (lastOp \in (Writes \cup Invalidations) /\ wasCached) =>
       (deleted /\ Len(log) = 1 /\ log[1].level = "info")

\* manual_cache_invalidation() right after invalidate_properties_cache(): the
\* key is absent, the result is false and the log line is a warning
C15_Witness ==
  /\ lastOp = "manual_cache_invalidation"
  /\ prev.op = "invalidate_properties_cache"
  /\ ~wasCached
  /\ ~deleted
  /\ log[1].level = "warning"

\* C16: a property_list request that misses the response tier answers with one
\* record per element of what get_all_properties() returned, in that order,
\* count = the number of records, and cached = true.
C16_JsonPayload ==
  (lastOp = "property_list" /\ ~servedHit) =>
    /\ called
    /\ Len(served.properties) = Len(result)
    /\ \A i \in 1..Len(result) :
         /\ served.properties[i].id = result[i].id
         /\ served.properties[i].title = result[i].title
         /\ served.properties[i].description = result[i].description
         /\ served.properties[i].price = ToString(result[i].price)
         /\ served.properties[i].location = result[i].location
         /\ served.properties[i].created_at = ToString(result[i].created_at)
    /\ served.count = Len(result)
    /\ served.cached = TRUE

\* a response-tier miss answered from a two-row listing the queryset tier held
C16_Witness ==
  /\ lastOp = "property_list"
  /\ ~servedHit
  /\ called /\ ~queried
  /\ Len(result) = 2
  /\ served.count = 2

Pages == {PAGE_JSON, PAGE_HTML}
PageOf(op) == IF op = "property_list" THEN PAGE_JSON ELSE PAGE_HTML

\* C17: Store writes (with their receivers), invalidate_properties_cache() and
\* manual_cache_invalidation() leave every response-tier entry as it was, and
\* the two functions leave the Store as it was; a response-tier entry goes only
\* when its 900 seconds have run out; a request that finds its entry is served
\* the stored response without a get_all_properties() call.
C17_InvalidationLeavesResponses ==
  /\ [](\A page \in Pages :
          Live(cache, page) =>
            (cache[page].ttl + cache[page].age = RESPONSE_TTL /\ cache[page].ttl > 0))
  /\ [][lastOp' \in (Writes \cup Invalidations) =>
          /\ \A page \in Pages : cache'[page] = cache[page]
          /\ ~Live(cache', CACHE_KEY)]_vars
  /\ [][lastOp' \in Invalidations => store' = store]_vars
  /\ [][\A page \in Pages :
          (Live(cache, page) /\ ~Live(cache', page)) =>
            (lastOp' = "tick" /\ \E d \in Durations : d >= cache[page].ttl)]_vars
  /\ [][(lastOp' \in Requests /\ Live(cache, PageOf(lastOp'))) =>
          /\ servedHit'
          /\ served' = cache[PageOf(lastOp')].value
          /\ ~called'
          /\ cache' = cache]_vars

\* the key was deleted while the JSON page was cached, and the page is still
\* served from the response tier
C17_Witness ==
  /\ lastOp = "property_list"
  /\ servedHit
  /\ ~KeyLive
  /\ Live(cache, PAGE_HTML)
  /\ served.properties # [i \in 1..Len(OrderByCreatedDesc(store)) |->
                            PropertyToDict(OrderByCreatedDesc(store)[i])]

Quiet == wpc = "idle" /\ \A r \in Readers : rpc[r] = "idle"

\* C12: a worker's cache.set is unconditional: when it runs, 'all_properties'
\* holds the list that worker loaded, whatever was written to the Store or
\* deleted from the cache since the load. (The interleaving the claim describes
\* is the state C12_Witness.)
C12_SetLandsWhateverHappened ==
  [][\A r \in Readers :
       (rpc[r] = "loaded" /\ rpc'[r] = "idle") =>
         (Live(cache', CACHE_KEY) /\ cache'[CACHE_KEY].value = rlocal[r])]_vars

\* every worker has finished, the writer's receiver has run, and the key holds
\* a listing the Store had before the last write
C12_Witness ==
  /\ Quiet
  /\ KeyLive
  /\ Len(history) >= 2
  /\ cache[CACHE_KEY].value # OrderByCreatedDesc(store)
  /\ cache[CACHE_KEY].value = history[Len(history) - 1]

\* C18: whatever the interleaving, a value under 'all_properties' is the whole
\* newest-first listing the Store had at one moment, and so is every list a
\* worker holds between its Store query and its cache.set.
C18_CachedIsSnapshot ==
  /\ KeyLive => \E i \in DOMAIN history : cache[CACHE_KEY].value = history[i]
  /\ \A r \in Readers :
       rpc[r] = "loaded" => \E i \in DOMAIN history : rlocal[r] = history[i]

\* the key repopulated with a two-row listing while the writer's receiver is
\* still to run
C18_Witness ==
  /\ KeyLive
  /\ Len(cache[CACHE_KEY].value) = 2
  /\ wpc # "idle"
  /\ \E r \in Readers : rpc[r] = "loaded"

====
